---------------------------- MODULE Spec2Model ----------------------------
(***************************************************************************)
(* A model of the CHIP-8 machine of src/src/system.rs (ChipSystem) and of  *)
(* the four components it owns: ChipRegisters (system/registers.rs),       *)
(* ChipMemory (memory.rs), ChipDisplay (display.rs), ChipKeyboard          *)
(* (keyboard.rs).                                                          *)
(*                                                                         *)
(* Representation.  The 4096-byte ram vector is held as the function of    *)
(* the bytes that differ from the vector ChipMemory::init builds (zeros    *)
(* and the font), the 2048 display cells as the set of lit positions; both *)
(* are canonical, so two equal vectors are equal values.  A Rust panic     *)
(* ends the process: the model keeps the state as the panicking statement  *)
(* left it and sets status to "panic".  Arithmetic overflow panics in a    *)
(* build with overflow checks (debug profile) and wraps in one without     *)
(* (release profile); the build is chosen at Init and never changes.       *)
(***************************************************************************)
EXTENDS Integers, Sequences, FiniteSets, TLC

\* ------------------------------------------------------------------ sizes

RamSize == 4096

RomStart == 512

FontBase == 80

StackSize == 16

NumKeys == 15

DisplayWidth == 64

DisplayHeight == 32

\* usize::MAX, the value sp_reg wraps to in a build without overflow checks.
\* Any index >= 16 behaves alike; the largest integer TLC represents stands
\* for it.
UsizeMax == 2147483647

\* ----------------------------------------------------------------- bounds

\* Steps a run may take.
MaxSteps == 17

\* Key events (set_key calls) a run may see.
MaxKeyEvents == 1

\* ------------------------------------------------------------- bit algebra

RECURSIVE BitAnd(_, _)
BitAnd(a, b) ==
    IF a = 0 \/ b = 0 THEN 0
    ELSE (IF a % 2 = 1 /\ b % 2 = 1 THEN 1 ELSE 0) + 2 * BitAnd(a \div 2, b \div 2)

RECURSIVE BitOr(_, _)
BitOr(a, b) ==
    IF a = 0 THEN b
    ELSE IF b = 0 THEN a
    ELSE (IF a % 2 = 1 \/ b % 2 = 1 THEN 1 ELSE 0) + 2 * BitOr(a \div 2, b \div 2)

RECURSIVE BitXor(_, _)
BitXor(a, b) ==
    IF a = 0 THEN b
    ELSE IF b = 0 THEN a
    ELSE (IF (a % 2) # (b % 2) THEN 1 ELSE 0) + 2 * BitXor(a \div 2, b \div 2)

RECURSIVE Pow2(_)
Pow2(n) == IF n = 0 THEN 1 ELSE 2 * Pow2(n - 1)

\* --------------------------------------------------------------- Opcode

\* Opcode::new: the four nibbles of a 16-bit opcode.
OpcodeNew(opcode) ==
    [h1 |-> (opcode \div 4096) % 16,
     v1 |-> (opcode \div 256) % 16,
     v2 |-> (opcode \div 16) % 16,
     v3 |-> opcode % 16]

\* (v1 << 8) + (v2 << 4) + v3
Addr12(c) == c.v1 * 256 + c.v2 * 16 + c.v3

\* (v2 << 4) + v3
LowByte(c) == c.v2 * 16 + c.v3

\* ------------------------------------------------------------ ChipMemory

hex_chars ==
    << 240, 144, 144, 144, 240,
        32,  96,  32,  32, 112,
       240,  16, 240, 128, 240,
       240,  16, 240,  16, 240,
       144, 144, 240,  16,  16,
       240, 128, 240,  16, 240,
       240, 128, 240, 144, 240,
       240,  16,  32,  64,  64,
       240, 144, 240, 144, 240,
       240, 144, 240,  16, 240,
       240, 144, 240, 144, 144,
       224, 144, 224, 144, 224,
       240, 128, 128, 128, 240,
       224, 144, 144, 144, 224,
       240, 128, 240, 128, 240,
       240, 128, 240, 128, 128 >>

\* load_symbols: ram[i + 0x050] = hex_chars[i] on the zeroed vector; the
\* byte at loc of the vector it returns.
load_symbols(loc) ==
    IF loc \in FontBase .. (FontBase + Len(hex_chars) - 1)
    THEN hex_chars[loc - FontBase + 1]
    ELSE 0

\* ChipMemory::init: no byte differs from the vector of load_symbols.
InitRam == [a \in {} |-> 0]

InRam(loc) == loc \in 0 .. (RamSize - 1)

\* self.ram[loc], for loc in range.
get_byte(r, loc) == IF loc \in DOMAIN r THEN r[loc] ELSE load_symbols(loc)

\* self.ram[loc] = val, for loc in range.
set_byte(r, loc, val) ==
    [a \in ((DOMAIN r) \cup {loc}) \ (IF val = load_symbols(loc) THEN {loc} ELSE {}) |->
        IF a = loc THEN val ELSE r[a]]

\* (get_byte(index) << 8) | get_byte(index + 1)
get_opcode(r, index) == get_byte(r, index) * 256 + get_byte(r, index + 1)

\* load_bytes, for a rom that fits: ram[i + start] = rom[i] for i in 0..len.
load_bytes(r, rom) ==
    LET span == RomStart .. (RomStart + Len(rom) - 1)
        byte(a) == rom[a - RomStart + 1]
    IN  [a \in ((DOMAIN r) \ span) \cup {b \in span : byte(b) # load_symbols(b)} |->
            IF a \in span THEN byte(a) ELSE r[a]]

\* ------------------------------------------------------- outcome of a call

\* A call that returned: the machine after it, the value it returned, and
\* whether ex_opcode's update_pc is still true.
Done(m) == [m |-> m, out |-> "ok", fault |-> "none", val |-> 0, upd |-> TRUE]

DoneVal(m, v) == [m |-> m, out |-> "ok", fault |-> "none", val |-> v, upd |-> TRUE]

\* update_pc = false
NoUpdate(r) == [r EXCEPT !.upd = FALSE]

\* A call that panicked, with the machine as the panicking statement left it.
Panic(m, f) == [m |-> m, out |-> "panic", fault |-> f, val |-> 0, upd |-> TRUE]

\* return Err(ExError {opcode})
Err(m, opcode) == [m |-> m, out |-> "err", fault |-> "none", val |-> opcode, upd |-> TRUE]

\* wait_key's loop, entered with no key pressed.
Wait(m) == [m |-> m, out |-> "wait", fault |-> "none", val |-> 0, upd |-> TRUE]

\* The rest of a function after a call that may panic: `rest` when the call
\* returned, the call's own outcome when it did not.
Bind(r, rest(_)) == IF r.out = "ok" THEN rest(r) ELSE r

\* u16 and u8 arithmetic: the sum panics in a build with overflow checks and
\* wraps in one without.
AddU16(m, a, b) ==
    IF a + b > 65535 /\ m.chk THEN Panic(m, "overflow") ELSE DoneVal(m, (a + b) % 65536)

AddU8(m, a, b) ==
    IF a + b > 255 /\ m.chk THEN Panic(m, "overflow") ELSE DoneVal(m, (a + b) % 256)

SubU8(m, a, b) ==
    IF a < b /\ m.chk THEN Panic(m, "overflow") ELSE DoneVal(m, (a - b + 256) % 256)

\* --------------------------------------------------------- ChipRegisters

\* A Rust vector is a sequence here: element i of the vector is element i + 1.
At(vec, index) == vec[index + 1]

get_gp(m, index) == At(m.gp, index)

set_gp(m, index, value) == [m EXCEPT !.gp[index + 1] = value]

\* self.gp_reg[index] += value
add_gp(m, index, value) ==
    Bind(AddU8(m, get_gp(m, index), value), LAMBDA s : Done(set_gp(m, index, s.val)))

\* self.pc_reg += 2
incr_pc(m) ==
    Bind(AddU16(m, m.pc, 2), LAMBDA s : Done([m EXCEPT !.pc = s.val]))

decr_d(m) == IF m.d > 0 THEN [m EXCEPT !.d = m.d - 1] ELSE m

decr_s(m) == IF m.s > 0 THEN [m EXCEPT !.s = m.s - 1] ELSE m

\* self.stack[self.sp_reg] = addr; self.sp_reg += 1;
\* the indexing panics when sp_reg is not below the stack's 16 entries.
push_stack(m, addr) ==
    IF m.sp >= StackSize THEN Panic(m, "stack_overflow")
    ELSE Done([m EXCEPT !.stack[m.sp + 1] = addr, !.sp = m.sp + 1])

\* A variant that reads the slot before it moves the pointer, as the draft
\* of main.rs does: let addr = self.stack[self.sp]; self.sp -= 1;
pop_stack_read_first(m) ==
    IF m.sp = 0
    THEN IF m.chk THEN Panic(m, "stack_underflow")
         ELSE Panic([m EXCEPT !.sp = UsizeMax], "stack_underflow")
    ELSE IF m.sp >= StackSize THEN Panic(m, "stack_overflow")
    ELSE DoneVal([m EXCEPT !.sp = m.sp - 1], At(m.stack, m.sp))

\* self.sp_reg -= 1; let addr = self.stack[self.sp_reg];
\* at sp_reg = 0 the subtraction panics (overflow checks) or wraps to
\* usize::MAX, and then the indexing panics.
pop_stack(m) ==
    IF m.sp = 0
    THEN IF m.chk THEN Panic(m, "stack_underflow")
         ELSE Panic([m EXCEPT !.sp = UsizeMax], "stack_underflow")
    ELSE DoneVal([m EXCEPT !.sp = m.sp - 1], At(m.stack, m.sp - 1))

\* ----------------------------------------------------------- ChipDisplay

\* The cell of bit i of row `row`, with wrap around.
Pos(x_loc, y_loc, row, i) ==
    (((y_loc + row) % DisplayHeight) * DisplayWidth) + ((x_loc + i) % DisplayWidth)

\* The two loops of draw_sprite from its k-th bit on (row k / 8, bit k % 8,
\* mask 0x01 << (k % 8)): d the cells lit so far, ret the deletion flag.
RECURSIVE draw_bits(_, _, _, _, _, _)
draw_bits(d, ret, x_loc, y_loc, sprite, k) ==
    IF k >= 8 * Len(sprite) THEN [disp |-> d, ret |-> ret]
    ELSE LET row == k \div 8
             i == k % 8
             mask == Pow2(i)
             pos == Pos(x_loc, y_loc, row, i)
             init_val == pos \in d
             bit == BitAnd(sprite[row + 1], mask) = mask
             d2 == IF bit THEN (IF init_val THEN d \ {pos} ELSE d \cup {pos}) ELSE d
             ret2 == ret \/ (init_val /\ pos \notin d2)
         IN  draw_bits(d2, ret2, x_loc, y_loc, sprite, k + 1)

\* A variant that lights the cells of the sprite instead of toggling them.
draw_sprite_paint(d, x_loc, y_loc, sprite) ==
    [disp |-> d \cup draw_bits({}, FALSE, x_loc, y_loc, sprite, 0).disp, ret |-> FALSE]

draw_sprite(d, x_loc, y_loc, sprite) == draw_bits(d, FALSE, x_loc, y_loc, sprite, 0)

\* clear_display: every cell false.
clear_display(d) == {}

\* ---------------------------------------------------------- ChipKeyboard

\* for i in 0..15 { if self.keys[i] == true { return true } }
any_pressed(ks) == \E i \in 0 .. 14 : At(ks, i)

\* the first i in 0..15 with keys[i], 16 when there is none
which_pressed(ks) ==
    IF any_pressed(ks)
    THEN CHOOSE i \in 0 .. 14 : At(ks, i) /\ \A j \in 0 .. (i - 1) : ~At(ks, j)
    ELSE 16

\* self.keys[index], which panics for an index that is not below keys.len()
get_key(m, index) ==
    IF index >= NumKeys THEN Panic(m, "key_oob")
    ELSE DoneVal(m, IF At(m.keys, index) THEN 1 ELSE 0)

\* A variant that looks at the keys once and does not wait.
wait_key_once(m) == DoneVal(m, which_pressed(m.keys))

\* while !self.any_pressed() { sleep }; return self.which_pressed()
wait_key(m) == IF any_pressed(m.keys) THEN DoneVal(m, which_pressed(m.keys)) ELSE Wait(m)

\* ------------------------------------------------- ChipMemory, with bounds

\* get_nbytes: out_bytes[i] = self.get_byte(loc + i), i in 0..nbytes.
RECURSIVE get_nbytes_from(_, _, _, _, _)
get_nbytes_from(m, loc, nbytes, i, acc) ==
    IF i >= nbytes THEN DoneVal(m, acc)
    ELSE Bind(AddU16(m, loc, i), LAMBDA a :
           IF ~InRam(a.val) THEN Panic(m, "mem_oob")
           ELSE get_nbytes_from(m, loc, nbytes, i + 1, Append(acc, get_byte(m.ram, a.val))))

get_nbytes(m, loc, nbytes) == get_nbytes_from(m, loc, nbytes, 0, <<>>)

\* self.ram.set_byte(loc, val) on the machine: the indexing panics out of range.
ram_set(m, loc, val) ==
    IF InRam(loc) THEN Done([m EXCEPT !.ram = set_byte(m.ram, loc, val)])
    ELSE Panic(m, "mem_oob")

\* ------------------------------------------------- ChipSystem::ex_opcode

\* 0x0: CLS when v3 = 0, RET when v3 = 14, otherwise nothing.
ex_0(m, c) ==
    IF c.v3 = 0 THEN Done([m EXCEPT !.disp = clear_display(m.disp)])
    ELSE IF c.v3 = 14
         THEN Bind(pop_stack(m), LAMBDA p : Done([p.m EXCEPT !.pc = p.val]))
    ELSE Done(m)

\* 0x1: JP nnn
ex_1(m, c) == NoUpdate(Done([m EXCEPT !.pc = Addr12(c)]))

\* 0x2: CALL nnn
ex_2(m, c) ==
    Bind(push_stack(m, m.pc), LAMBDA p : NoUpdate(Done([p.m EXCEPT !.pc = Addr12(c)])))

\* A variant that skips whatever the condition is.
skip_always(m, cond) == incr_pc(m)

\* The skips: incr_pc when the condition holds.
skip_if(m, cond) == IF cond THEN incr_pc(m) ELSE Done(m)

\* 0x3: SE Vx, kk
ex_3(m, c) == skip_if(m, LowByte(c) = get_gp(m, c.v1))

\* 0x4: SNE Vx, kk
ex_4(m, c) == skip_if(m, LowByte(c) # get_gp(m, c.v1))

\* 0x5: SE Vx, Vy
ex_5(m, c) == skip_if(m, get_gp(m, c.v1) = get_gp(m, c.v2))

\* 0x6: LD Vx, kk
ex_6(m, c) == Done(set_gp(m, c.v1, LowByte(c)))

\* 0x7: ADD Vx, kk
ex_7(m, c) == add_gp(m, c.v1, LowByte(c) % 256)

\* 0x8: the register-to-register group, on v3.
ex_8(m, c, opcode) ==
    LET x == get_gp(m, c.v1)
        y == get_gp(m, c.v2)
    IN  CASE c.v3 = 0 -> Done(set_gp(m, c.v1, y))
          [] c.v3 = 1 -> Done(set_gp(m, c.v1, BitOr(x, y)))
          [] c.v3 = 2 -> Done(set_gp(m, c.v1, BitAnd(x, y)))
          [] c.v3 = 3 -> Done(set_gp(m, c.v1, BitXor(x, y)))
          [] c.v3 = 4 ->
               Done(set_gp(set_gp(m, 15, IF x + y > 255 THEN 1 ELSE 0), c.v1, (x + y) % 256))
          [] c.v3 = 5 ->
               Bind(SubU8(set_gp(m, 15, IF x < y THEN 0 ELSE 1), x, y),
                    LAMBDA holder : Done(set_gp(holder.m, c.v1, holder.val)))
          [] c.v3 = 6 ->
               Done(set_gp(set_gp(m, 15, x % 2), c.v1, x \div 2))
          [] c.v3 = 7 ->
               Bind(SubU8(set_gp(m, 15, IF y < x THEN 0 ELSE 1), y, x),
                    LAMBDA holder : Done(set_gp(holder.m, c.v1, holder.val)))
          [] c.v3 = 14 ->
               Done(set_gp(set_gp(m, 15, BitAnd(x, 128)), c.v1, (x * 2) % 256))
          [] OTHER -> Err(m, opcode)

\* 0x9: SNE Vx, Vy
ex_9(m, c) == skip_if(m, get_gp(m, c.v1) # get_gp(m, c.v2))

\* 0xA: LD I, nnn
ex_A(m, c) == Done([m EXCEPT !.i = Addr12(c)])

\* 0xB: JP V0, nnn
ex_B(m, c) == NoUpdate(Done([m EXCEPT !.pc = Addr12(c) + get_gp(m, 0)]))

\* 0xC: RND Vx, kk, with rnd the byte random_byte returns
ex_C(m, c, rnd) == Done(set_gp(m, c.v1, BitAnd(LowByte(c), rnd)))

\* 0xD: DRW Vx, Vy, n
\* A variant that raises VF whenever the draw changed the display.
show_any_change(m, drawn) ==
    Done(set_gp([m EXCEPT !.disp = drawn.disp], 15, IF drawn.disp # m.disp THEN 1 ELSE 0))

show(m, drawn) == Done(set_gp([m EXCEPT !.disp = drawn.disp], 15, IF drawn.ret THEN 1 ELSE 0))

ex_D(m, c) ==
    Bind(get_nbytes(m, m.i, c.v3), LAMBDA sprite_bytes :
      show(m, draw_sprite(m.disp, get_gp(m, c.v1), get_gp(m, c.v2), sprite_bytes.val)))

\* 0xE: SKP / SKNP, on the low byte; the key index is the nibble v1.
ex_E(m, c, opcode) ==
    CASE LowByte(c) = 158 -> Bind(get_key(m, c.v1), LAMBDA key_val : skip_if(m, key_val.val = 1))
      [] LowByte(c) = 161 -> Bind(get_key(m, c.v1), LAMBDA key_val : skip_if(m, key_val.val = 0))
      [] OTHER -> Err(m, opcode)

\* A variant that stores the digits lowest first: ones, tens, huns.
ex_F33_ones_first(m, c) ==
    LET reg_val == get_gp(m, c.v1)
        ones == reg_val % 10
        tens == (reg_val \div 10) % 10
        huns == (reg_val \div 100) % 10
    IN  Bind(ram_set(m, m.i, ones), LAMBDA w0 :
        Bind(AddU16(w0.m, m.i, 1), LAMBDA a1 :
        Bind(ram_set(a1.m, a1.val, tens), LAMBDA w1 :
        Bind(AddU16(w1.m, m.i, 2), LAMBDA a2 :
        ram_set(a2.m, a2.val, huns)))))

\* Fx33: huns, tens, ones to I, I + 1, I + 2, one set_byte after the other.
ex_F33(m, c) ==
    LET reg_val == get_gp(m, c.v1)
        ones == reg_val % 10
        tens == (reg_val \div 10) % 10
        huns == (reg_val \div 100) % 10
    IN  Bind(ram_set(m, m.i, huns), LAMBDA w0 :
        Bind(AddU16(w0.m, m.i, 1), LAMBDA a1 :
        Bind(ram_set(a1.m, a1.val, tens), LAMBDA w1 :
        Bind(AddU16(w1.m, m.i, 2), LAMBDA a2 :
        ram_set(a2.m, a2.val, ones)))))

\* Fx55's loop from loc on: set_byte(i_val + loc, gp[loc]) for loc in 0..x_range.
RECURSIVE store_regs(_, _, _, _)
store_regs(m, i_val, loc, x_range) ==
    IF loc >= x_range THEN Done(m)
    ELSE Bind(AddU16(m, i_val, loc), LAMBDA a :
         Bind(ram_set(m, a.val, get_gp(m, loc)), LAMBDA w :
         store_regs(w.m, i_val, loc + 1, x_range)))

\* Fx55: the loop, then I = i_val + x_range + 1.
ex_F55(m, c) ==
    Bind(store_regs(m, m.i, 0, c.v1), LAMBDA st :
    Bind(AddU16(st.m, m.i, c.v1), LAMBDA n1 :
    Bind(AddU16(n1.m, n1.val, 1), LAMBDA new_i :
    Done([new_i.m EXCEPT !.i = new_i.val]))))

\* Fx65's loop from loc on: set_gp(loc, get_byte(i_val + loc)) for loc in 0..x_range.
RECURSIVE load_regs(_, _, _, _)
load_regs(m, i_val, loc, x_range) ==
    IF loc >= x_range THEN Done(m)
    ELSE Bind(AddU16(m, i_val, loc), LAMBDA a :
           IF ~InRam(a.val) THEN Panic(m, "mem_oob")
           ELSE load_regs(set_gp(m, loc, get_byte(m.ram, a.val)), i_val, loc + 1, x_range))

\* Fx65: the loop; I is left as it is.
ex_F65(m, c) == load_regs(m, m.i, 0, c.v1)

\* 0xF: on the low byte.
ex_F(m, c, opcode) ==
    CASE LowByte(c) = 7 -> Done(set_gp(m, c.v1, m.d))
      [] LowByte(c) = 10 ->
           Bind(wait_key(m), LAMBDA key : Done(set_gp(m, c.v1, key.val)))
      [] LowByte(c) = 21 -> Done([m EXCEPT !.d = c.v1])
      [] LowByte(c) = 24 -> Done([m EXCEPT !.s = c.v1])
      [] LowByte(c) = 30 ->
           Bind(AddU16(m, m.i, get_gp(m, c.v1)), LAMBDA value : Done([m EXCEPT !.i = value.val]))
      [] LowByte(c) = 41 -> Done([m EXCEPT !.i = c.v1 * 5])
      [] LowByte(c) = 51 -> ex_F33(m, c)
      [] LowByte(c) = 85 -> ex_F55(m, c)
      [] LowByte(c) = 101 -> ex_F65(m, c)
      [] OTHER -> Err(m, opcode)

\* match comps.h1 { ... }
dispatch(m, c, opcode, rnd) ==
    CASE c.h1 = 0 -> ex_0(m, c)
      [] c.h1 = 1 -> ex_1(m, c)
      [] c.h1 = 2 -> ex_2(m, c)
      [] c.h1 = 3 -> ex_3(m, c)
      [] c.h1 = 4 -> ex_4(m, c)
      [] c.h1 = 5 -> ex_5(m, c)
      [] c.h1 = 6 -> ex_6(m, c)
      [] c.h1 = 7 -> ex_7(m, c)
      [] c.h1 = 8 -> ex_8(m, c, opcode)
      [] c.h1 = 9 -> ex_9(m, c)
      [] c.h1 = 10 -> ex_A(m, c)
      [] c.h1 = 11 -> ex_B(m, c)
      [] c.h1 = 12 -> ex_C(m, c, rnd)
      [] c.h1 = 13 -> ex_D(m, c)
      [] c.h1 = 14 -> ex_E(m, c, opcode)
      [] c.h1 = 15 -> ex_F(m, c, opcode)
      [] OTHER -> Err(m, opcode)

\* if update_pc { incr_pc() }
\* A variant that also steps past an opcode it could not decode.
advance_pc_past_errors(r) ==
    IF r.out = "err" THEN [r EXCEPT !.m = incr_pc(r.m).m]
    ELSE IF r.out = "ok" /\ r.upd THEN incr_pc(r.m) ELSE r

advance_pc(r) == IF r.out = "ok" /\ r.upd THEN incr_pc(r.m) ELSE r

\* ex_opcode: decode, dispatch, then the program counter's increment.
ex_opcode(m, opcode, rnd) == advance_pc(dispatch(m, OpcodeNew(opcode), opcode, rnd))

\* ------------------------------------------------------------ the machine

VARIABLES
    gp_reg,           \* ChipRegisters.gp_reg: 16 bytes
    stack,            \* ChipRegisters.stack: 16 addresses
    i_reg,            \* ChipRegisters.i_reg
    d_reg,            \* ChipRegisters.d_reg
    s_reg,            \* ChipRegisters.s_reg
    pc_reg,           \* ChipRegisters.pc_reg
    sp_reg,           \* ChipRegisters.sp_reg
    ram,              \* ChipMemory.ram, the bytes that differ from init's
    loaded,           \* ChipMemory.loaded
    display,          \* ChipDisplay.display, its lit cells
    modified,         \* ChipDisplay.modified
    keys,             \* ChipKeyboard.keys: 15 booleans
    overflow_checks,  \* the build: TRUE when integer overflow panics
    status,           \* "ready" between calls, "running" in run's loop, "waiting" in
                      \* wait_key's loop, "panic"
    fault,            \* what the panic was about
    res,              \* step's local res, the ExResult of ex_opcode
    ret,              \* the value the last call of step returned
    calls,            \* the CALLs that have not returned yet: where, and sp before
    pc_set,           \* the driver has called registers.set_pc
    nsteps,           \* calls of step, or passes of run's loop, so far
    nkeys,            \* calls of set_key so far
    log               \* the calls made on the display and the keyboard directly

regs == <<gp_reg, stack, i_reg, d_reg, s_reg, pc_reg, sp_reg>>

vars == <<gp_reg, stack, i_reg, d_reg, s_reg, pc_reg, sp_reg, ram, loaded, display,
          modified, keys, overflow_checks, status, fault, res, ret, calls, pc_set,
          nsteps, nkeys, log>>

\* The components as one record, as ex_opcode sees them through &mut self.
Machine ==
    [gp |-> gp_reg, stack |-> stack, i |-> i_reg, d |-> d_reg, s |-> s_reg,
     pc |-> pc_reg, sp |-> sp_reg, ram |-> ram, disp |-> display, keys |-> keys,
     chk |-> overflow_checks]

NoRes == [kind |-> "none", opcode |-> 0]

NoRet == [opcode |-> 0, frame |-> [some |-> FALSE, cells |-> {}]]

\* ChipSystem::init: ChipMemory::init, ChipDisplay::init, ChipRegisters::init,
\* ChipKeyboard::init.
Init ==
    /\ gp_reg = [r \in 1 .. 16 |-> 0]
    /\ stack = [k \in 1 .. StackSize |-> 0]
    /\ i_reg = 0
    /\ d_reg = 0
    /\ s_reg = 0
    /\ pc_reg = 0
    /\ sp_reg = 0
    /\ ram = InitRam
    /\ loaded = FALSE
    /\ display = {}
    /\ modified = FALSE
    /\ keys = [k \in 1 .. NumKeys |-> FALSE]
    /\ overflow_checks \in BOOLEAN
    /\ status = "ready"
    /\ fault = "none"
    /\ res = NoRes
    /\ ret = NoRet
    /\ calls = <<>>
    /\ pc_set = FALSE
    /\ nsteps = 0
    /\ nkeys = 0
    /\ log = <<>>

\* The bytes random_byte is taken to return.
RandomBytes == {0, 165, 255}

\* get_next_opcode: the opcode at pc, or at pc - 1 when pc is odd.
next_index(pc) == IF pc % 2 # 0 THEN pc - 1 ELSE pc

get_next_opcode(m) ==
    LET index == next_index(m.pc)
    IN  IF InRam(index) /\ InRam(index + 1)
        THEN DoneVal(m, get_opcode(m.ram, index))
        ELSE Panic(m, "mem_oob")

\* mod_check: the flag it returns, and the flag it leaves.
mod_check(flag) == [ret |-> flag, modified |-> FALSE]

\* A variant that leaves the timers alone after a decode error.
timers_on_ok(r) == IF r.out = "ok" THEN [r EXCEPT !.m = decr_s(decr_d(r.m))] ELSE r

\* self.registers.decr_d(); self.registers.decr_s(), which a step reaches
\* when ex_opcode returned, Ok or Err.
timers(r) == IF r.out \in {"ok", "err"} THEN [r EXCEPT !.m = decr_s(decr_d(r.m))] ELSE r

fetched(r, opcode) == [r EXCEPT !.val = opcode]

\* step without its return: get_next_opcode, ex_opcode, the two timers.
\* out is "ok" or "err" when step returns, val the opcode fetched.
step_body(m, rnd) ==
    timers(Bind(get_next_opcode(m), LAMBDA f : fetched(ex_opcode(m, f.val, rnd), f.val)))

\* The CALLs that have not returned, after a step that fetched opcode and
\* returned: a 2nnn adds the place of the call and the stack pointer before
\* it, a return (0x0 with v3 = 14) drops the last.
calls_after(cs, opcode, pc, sp) ==
    IF OpcodeNew(opcode).h1 = 2 THEN Append(cs, [at |-> pc, sp |-> sp])
    ELSE IF OpcodeNew(opcode).h1 = 0 /\ OpcodeNew(opcode).v3 = 14 /\ cs # <<>>
         THEN SubSeq(cs, 1, Len(cs) - 1)
    ELSE cs

\* The value step returns: (opcode, Some(display)) or (opcode, None).
step_return(opcode, shown, cells) ==
    [opcode |-> opcode, frame |-> [some |-> shown, cells |-> IF shown THEN cells ELSE {}]]

\* The state a call of step leaves: r the outcome of step_body, mc of mod_check.
step_to(r, mc) ==
    /\ gp_reg' = r.m.gp
    /\ stack' = r.m.stack
    /\ i_reg' = r.m.i
    /\ d_reg' = r.m.d
    /\ s_reg' = r.m.s
    /\ pc_reg' = r.m.pc
    /\ sp_reg' = r.m.sp
    /\ ram' = r.m.ram
    /\ display' = r.m.disp
    /\ fault' = r.fault
    /\ IF r.out \in {"ok", "err"}
       THEN /\ status' = "ready"
            /\ res' = IF r.out = "ok" THEN [kind |-> "Ok", opcode |-> 0]
                                      ELSE [kind |-> "Err", opcode |-> r.val]
            /\ modified' = mc.modified
            /\ ret' = step_return(r.val, mc.ret, r.m.disp)
            /\ calls' = IF r.out = "ok"
                        THEN calls_after(calls, r.val, pc_reg, sp_reg)
                        ELSE calls
       ELSE /\ status' = IF r.out = "wait" THEN "waiting" ELSE "panic"
            /\ UNCHANGED <<res, modified, ret, calls>>

\* ChipSystem::step
Step ==
    /\ status = "ready"
    /\ nsteps < MaxSteps
    /\ \E rnd \in RandomBytes : step_to(step_body(Machine, rnd), mod_check(modified))
    /\ nsteps' = nsteps + 1
    /\ UNCHANGED <<loaded, keys, overflow_checks, pc_set, nkeys, log>>

\* ------------------------------------------------------ the program images

\* The bytes of a program, two per opcode, high byte first.
Bytes(ops) ==
    [k \in 1 .. (2 * Len(ops)) |->
        IF k % 2 = 1 THEN ops[(k + 1) \div 2] \div 256 ELSE ops[k \div 2] % 256]

\* A program that ends in a jump to itself.
Halting(ops) == Append(ops, 4096 + RomStart + 2 * Len(ops))

\* The opcodes the short programs are made of.
Palette ==
    { 238,      \* 00EE RET
      4611,     \* 1203 JP 0x203
      8706,     \* 2202 CALL 0x202
      24831,    \* 60FF LD V0, 0xFF
      32792,    \* 8018 (not an opcode)
      45055,    \* AFFF LD I, 0xFFF
      45569,    \* B201 JP V0, 0x201
      53250,    \* D002 DRW V0, V0, 2
      61491,    \* F033 LD B, V0
      62037,    \* F255 LD [I], V0..V2
      62053 }   \* F265 LD V0..V2, [I]

\* Opcodes that are run as programs of one opcode.
Singles ==
    { 224,      \* 00E0 CLS
      8190,     \* 1FFE JP 0xFFE
      49407,    \* C0FF RND V0, 0xFF
      57502,    \* E09E SKP 0
      61342,    \* EF9E SKP F
      57344,    \* E000 (not an opcode)
      61450,    \* F00A LD V0, K
      61695 }   \* F0FF (not an opcode)

\* The programs of one or two opcodes of the palette.
ShortPrograms ==
    {<<a>> : a \in Palette \cup Singles} \cup {<<a, b>> : a, b \in Palette}

\* A program with an opcode far from its start: zeros in between.
Placed(ops, far, op) ==
    [k \in 1 .. (far - RomStart + 2) |->
        IF k <= 2 * Len(ops) THEN Bytes(ops)[k]
        ELSE IF k = far - RomStart + 1 THEN op \div 256
        ELSE IF k = far - RomStart + 2 THEN op % 256
        ELSE 0]

\* Longer programs:
\*   2300 1202 ... 00EE at 0x300: CALL 0x300, and the RET there;
\*   60FF AFFE F033: the digits of 255 at 0xFFE, 0xFFF and one byte beyond;
\*   6F02 80F5: V0 - VF with a borrow, VF holding 2;
\*   2202 2204 00EE: a CALL within a CALL, and the two RETs;
\*   1203 2206 1208 00EE 00EE: a CALL and its RET at an odd program counter,
\*     then a RET on the empty stack;
\*   F515 F318 8018: the two timers set, then a decode error with both running;
\*   F515 F00A: a wait for a key with the delay timer running;
\*   A050 D005 D005 00E0: the glyph of 0 drawn at (0, 0) twice, then a CLS;
\*   6F02 8FF4: VF + VF, with VF holding 2;
\*   60FF 6101 8014: 0xFF + 0x01;
\*   A050 D005 A055 D005: the glyph of 1 drawn over the glyph of 0;
\*   603E 611F A050 D015 D015: the glyph of 0 at (62, 31), around both edges, twice;
\*   6002 8017: V1 - V0 with a borrow;
\*   60FF 800E: 0xFF shifted left;
\*   6360 73A0: 0x60 + 0xA0;
\*   60EA A300 F033, C0FF A300 F033: the digits of 234, and of a random byte, at 0x300;
\*   A050 F033: the digits of 0 at the font;
\*   60FF A300 F055: V0 = 0xFF stored at 0x300;
\*   A050 F165: V0 and V1 loaded from the font;
\*   6002 F029: the glyph of the digit in V0;
\*   6007 E09E: a skip on the key V0 names;
\*   6005 3006 3005 6FFF 4005 4006 6FFF 5010 5000 6FFF 9000 9010 6FFF: each of
\*     the four skips not taken, then taken over a LD VF, 0xFF;
\*   A050 D005 0230: the glyph of 0 drawn, then an opcode of the 0x0 group
\*     that is neither 00E0 nor 00EE.
LongRoms ==
    { Placed(<<8960, 4610>>, 768, 238),
      Bytes(<<24831, 45054, 61491>>),
      Bytes(Halting(<<28418, 33013>>)),
      Bytes(Halting(<<8706, 8708, 238>>)),
      Bytes(<<4611, 8710, 4616, 238, 238>>),
      Bytes(<<62741, 62232, 32792>>),
      Bytes(Halting(<<62741, 61450>>)),
      Bytes(Halting(<<41040, 53253, 53253, 224>>)),
      Bytes(Halting(<<28418, 36852>>)),
      Bytes(Halting(<<24831, 24833, 32788>>)),
      Bytes(Halting(<<41040, 53253, 41045, 53253>>)),
      Bytes(Halting(<<24638, 24863, 41040, 53269, 53269>>)),
      Bytes(Halting(<<24578, 32791>>)),
      Bytes(Halting(<<24831, 32782>>)),
      Bytes(Halting(<<25440, 29600>>)),
      Bytes(Halting(<<24810, 41728, 61491>>)),
      Bytes(Halting(<<49407, 41728, 61491>>)),
      Bytes(Halting(<<41040, 61491>>)),
      Bytes(Halting(<<24831, 41728, 61525>>)),
      Bytes(Halting(<<41040, 61797>>)),
      Bytes(Halting(<<24578, 61481>>)),
      Bytes(Halting(<<24583, 57502>>)),
      Bytes(Halting(<<24581, 12294, 12293, 28671, 16389, 16390, 28671, 20496, 20480,
                      28671, 36864, 36880, 28671>>)),
      Bytes(Halting(<<41040, 53253, 560>>)) }

Roms == {Bytes(Halting(p)) : p \in ShortPrograms} \cup LongRoms

\* ------------------------------------------------------------- the driver

\* ChipSystem::load_rom: load_bytes, which leaves `loaded` as it is.
\* The image is loaded once, into the ram as init left it, before any step.
LoadRom ==
    /\ status = "ready"
    /\ nsteps = 0
    /\ ram = InitRam
    /\ \E rom \in Roms : ram' = load_bytes(ram, rom)
    /\ UNCHANGED <<regs, loaded, display, modified, keys, overflow_checks, status,
                   fault, res, ret, calls, pc_set, nsteps, nkeys, log>>

\* registers.set_pc(0x200): the driver points the machine at the program.
SetPc ==
    /\ status = "ready"
    /\ nsteps = 0
    /\ ~pc_set
    /\ pc_reg' = RomStart
    /\ pc_set' = TRUE
    /\ UNCHANGED <<gp_reg, stack, i_reg, d_reg, s_reg, sp_reg, ram, loaded, display,
                   modified, keys, overflow_checks, status, fault, res, ret, calls,
                   nsteps, nkeys, log>>

\* The key indices the input collaborator passes to set_key.
KeyInputs == {0, 7, 15}

\* keyboard.set_key(index, value), between two steps:
\* self.keys[index] = value, which panics for an index that is not below keys.len().
SetKey ==
    /\ status = "ready"
    /\ nkeys < MaxKeyEvents
    /\ \E index \in KeyInputs, value \in BOOLEAN :
         IF index >= NumKeys
         THEN /\ status' = "panic"
              /\ fault' = "key_oob"
              /\ keys' = keys
         ELSE /\ keys' = [keys EXCEPT ![index + 1] = value]
              /\ UNCHANGED <<status, fault>>
    /\ nkeys' = nkeys + 1
    /\ UNCHANGED <<regs, ram, loaded, display, modified, overflow_checks, res, ret,
                   calls, pc_set, nsteps, log>>

Next == LoadRom \/ SetPc \/ SetKey \/ Step

Spec == Init /\ [][Next]_vars

\* The input collaborator delivers the key events it has, whenever set_key
\* can be called: between two steps, since step holds the machine by &mut.
FairSpec == Spec /\ WF_vars(SetKey)

\* ------------------------------------------- the components, called directly

\* The display and the keyboard are public fields of ChipSystem, and their
\* methods are public: a caller can draw, and read and write keys, without a
\* step.  log keeps these calls, with what they were given and what they gave.

\* Calls a run of direct calls may make.
MaxCalls == 3

\* The places and the sprites that are drawn: at the origin and next to the
\* right and the lower edge; 0xF0, and 0xF0 over 0x90.
DrawXs == {0, 60}

DrawYs == {0, 31}

Sprites == {<<240>>, <<240, 144>>}

\* done: the call returned; hit and after: what draw_sprite returned and
\* left on a display that held before; value: the key state given or read;
\* key: what wait_key returned.
NoCall ==
    [op |-> "none", done |-> TRUE, x |-> 0, y |-> 0, sprite |-> <<>>, hit |-> FALSE,
     before |-> {}, after |-> {}, index |-> 0, value |-> FALSE, key |-> 0]

\* display.draw_sprite(x, y, sprite)
DrawSpriteCall ==
    /\ status = "ready"
    /\ Len(log) < MaxCalls
    /\ \E x \in DrawXs, y \in DrawYs, sprite \in Sprites :
         /\ display' = draw_sprite(display, x, y, sprite).disp
         /\ log' = Append(log, [NoCall EXCEPT !.op = "draw_sprite", !.x = x, !.y = y,
                                  !.sprite = sprite, !.before = display,
                                  !.hit = draw_sprite(display, x, y, sprite).ret,
                                  !.after = draw_sprite(display, x, y, sprite).disp])
    /\ UNCHANGED <<regs, ram, loaded, modified, keys, overflow_checks, status, fault,
                   res, ret, calls, pc_set, nsteps, nkeys>>

\* keyboard.set_key(index, value)
SetKeyCall ==
    /\ status = "ready"
    /\ Len(log) < MaxCalls
    /\ \E index \in KeyInputs, value \in BOOLEAN :
         IF index >= NumKeys
         THEN /\ status' = "panic"
              /\ fault' = "key_oob"
              /\ keys' = keys
              /\ log' = Append(log, [NoCall EXCEPT !.op = "set_key", !.done = FALSE,
                                       !.index = index, !.value = value])
         ELSE /\ keys' = [keys EXCEPT ![index + 1] = value]
              /\ log' = Append(log, [NoCall EXCEPT !.op = "set_key", !.index = index,
                                       !.value = value])
              /\ UNCHANGED <<status, fault>>
    /\ UNCHANGED <<regs, ram, loaded, display, modified, overflow_checks, res, ret,
                   calls, pc_set, nsteps, nkeys>>

\* keyboard.get_key(index)
GetKeyCall ==
    /\ status = "ready"
    /\ Len(log) < MaxCalls
    /\ \E index \in KeyInputs :
         /\ status' = IF get_key(Machine, index).out = "ok" THEN "ready" ELSE "panic"
         /\ fault' = get_key(Machine, index).fault
         /\ log' = Append(log, [NoCall EXCEPT !.op = "get_key", !.index = index,
                                  !.done = (get_key(Machine, index).out = "ok"),
                                  !.value = (get_key(Machine, index).val = 1)])
    /\ UNCHANGED <<regs, ram, loaded, display, modified, keys, overflow_checks, res,
                   ret, calls, pc_set, nsteps, nkeys>>

\* keyboard.wait_key(), which returns at once when a key is pressed and
\* loops for ever when none is: it holds &self, so no key can change.
WaitKeyCall ==
    /\ status = "ready"
    /\ Len(log) < MaxCalls
    /\ status' = IF wait_key(Machine).out = "ok" THEN "ready" ELSE "waiting"
    /\ log' = Append(log, [NoCall EXCEPT !.op = "wait_key",
                             !.done = (wait_key(Machine).out = "ok"),
                             !.key = wait_key(Machine).val])
    /\ UNCHANGED <<regs, ram, loaded, display, modified, keys, overflow_checks, fault,
                   res, ret, calls, pc_set, nsteps, nkeys>>

CallNext == DrawSpriteCall \/ SetKeyCall \/ GetKeyCall \/ WaitKeyCall

Components == Init /\ [][CallNext]_vars

\* ------------------------------------------------------------ the run loop

\* ChipMemory::load_rom_file, called on the public field ram, with a file
\* that could be read: load_bytes, then loaded = true.  A file that could not
\* be read returns the error before anything is written.
LoadRomFile ==
    /\ status = "ready"
    /\ nsteps = 0
    /\ ram = InitRam
    /\ \E rom \in Roms : ram' = load_bytes(ram, rom)
    /\ loaded' = TRUE
    /\ UNCHANGED <<regs, display, modified, keys, overflow_checks, status, fault,
                   res, ret, calls, pc_set, nsteps, nkeys, log>>

\* ChipSystem::run is called, once: it returns at once when has_loaded is
\* false, and enters its loop otherwise.  log keeps the call, done when it
\* has returned.
Run ==
    /\ status = "ready"
    /\ log = <<>>
    /\ log' = <<[NoCall EXCEPT !.op = "run", !.done = ~loaded]>>
    /\ status' = IF loaded THEN "running" ELSE "ready"
    /\ UNCHANGED <<regs, ram, loaded, display, modified, keys, overflow_checks, fault,
                   res, ret, calls, pc_set, nsteps, nkeys>>

\* The end of a pass: decr_d and decr_s, which the break on Err jumps over.
run_timers(r) == IF r.out = "ok" THEN [r EXCEPT !.m = decr_s(decr_d(r.m))] ELSE r

\* One pass of the loop: get_next_opcode, ex_opcode, incr_pc when the result
\* is Ok and break when it is Err, then the two timers.
run_pass(m, rnd) ==
    Bind(get_next_opcode(m), LAMBDA f :
        fetched(run_timers(Bind(ex_opcode(m, f.val, rnd), LAMBDA e : incr_pc(e.m))), f.val))

\* The state a pass leaves: r the outcome of run_pass.  After an Err the
\* loop is left and run returns.
run_to(r) ==
    /\ gp_reg' = r.m.gp
    /\ stack' = r.m.stack
    /\ i_reg' = r.m.i
    /\ d_reg' = r.m.d
    /\ s_reg' = r.m.s
    /\ pc_reg' = r.m.pc
    /\ sp_reg' = r.m.sp
    /\ ram' = r.m.ram
    /\ display' = r.m.disp
    /\ fault' = r.fault
    /\ status' = CASE r.out = "ok" -> "running"
                   [] r.out = "err" -> "ready"
                   [] r.out = "wait" -> "waiting"
                   [] OTHER -> "panic"
    /\ res' = CASE r.out = "ok" -> [kind |-> "Ok", opcode |-> 0]
                [] r.out = "err" -> [kind |-> "Err", opcode |-> r.val]
                [] OTHER -> res
    /\ calls' = IF r.out = "ok" THEN calls_after(calls, r.val, pc_reg, sp_reg) ELSE calls
    /\ log' = IF r.out = "err" THEN <<[log[1] EXCEPT !.done = TRUE]>> ELSE log

\* A pass of run's loop.
RunPass ==
    /\ status = "running"
    /\ nsteps < MaxSteps
    /\ \E rnd \in RandomBytes : run_to(run_pass(Machine, rnd))
    /\ nsteps' = nsteps + 1
    /\ UNCHANGED <<loaded, modified, keys, overflow_checks, ret, pc_set, nkeys>>

RunNext == LoadRom \/ LoadRomFile \/ SetPc \/ SetKey \/ Run \/ RunPass

\* A machine that is driven by run instead of by calls of step.
RunSpec == Init /\ [][RunNext]_vars

\* ------------------------------------------------------------- the claims

\* A call of step that returned, between the unprimed and the primed state.
Stepped == status = "ready" /\ nsteps' = nsteps + 1 /\ status' = "ready"

\* The opcode a step from this state fetches, when the fetch is within ram.
Fetched == get_opcode(ram, next_index(pc_reg))

FetchInRam == InRam(next_index(pc_reg)) /\ InRam(next_index(pc_reg) + 1)

\* C1: a RET (00EE) that matches a CALL (2nnn) executed at PC = p leaves
\* PC = p + 2 and the stack pointer at its value before that CALL.
C1_CallRet ==
    [][(Stepped /\ FetchInRam /\ Fetched = 238 /\ calls # <<>>)
         => /\ res'.kind = "Ok"
            /\ pc_reg' = calls[Len(calls)].at + 2
            /\ sp_reg' = calls[Len(calls)].sp]_vars

\* C1: CALL 0x300 from PC = 0x200 and the RET at 0x300 have been executed:
\* PC = 0x202, stack pointer = 0.
C1_Witness ==
    /\ get_opcode(ram, RomStart) = 8960
    /\ ret.opcode = 238
    /\ res.kind = "Ok"
    /\ At(stack, 0) = RomStart
    /\ pc_reg = 514
    /\ sp_reg = 0

\* C2 (as claimed): a CALL at stack depth 16 fails with a stack-overflow
\* error returned to the caller as a value, not with a process abort, and
\* leaves the 16 return addresses and the stack pointer as they were.
C2_Claim == fault = "stack_overflow" => (status = "ready" /\ res.kind = "Err" /\ sp_reg = StackSize)

\* C3 (as claimed): a RET on the empty stack fails with a stack-underflow
\* condition returned to the caller as a value, not with a process abort, and
\* leaves the stack pointer at 0.
C3_Claim == fault = "stack_underflow" => (status = "ready" /\ res.kind = "Err" /\ sp_reg = 0)

\* C4 (as claimed): in every reachable state the stack pointer is in the
\* range [0, 16].
C4_Claim == sp_reg \in 0 .. StackSize

\* C5 (as claimed): no step of recognized opcodes reaches for a byte of ram
\* outside [0,4095], in the fetch or through I.
C5_Claim == fault # "mem_oob"

\* C6 (as claimed): a step that ends by a fault has applied none of its
\* opcode's writes to the registers, the memory or the display.
C6_Claim ==
    [][(status = "ready" /\ nsteps' = nsteps + 1 /\ status' = "panic")
         => (gp_reg' = gp_reg /\ i_reg' = i_reg /\ ram' = ram /\ display' = display)]_vars

\* The opcodes C7 names as not recognized.
C7_Unrecognized(op) ==
    LET h == op \div 4096
        n == op % 16
        kk == op % 256
    IN  \/ h = 8 /\ n \in {8, 9, 10, 11, 12, 13, 15}
        \/ h = 14 /\ kk \notin {158, 161}
        \/ h = 15 /\ kk \notin {7, 10, 21, 24, 30, 41, 51, 85, 101}

\* C7: a step that fetches an opcode that is not recognized returns with the
\* decode error carrying that opcode, and with V0..VF, I, PC, the stack, the
\* stack pointer, the memory and the display as they were.
C7_DecodeError ==
    [][(status = "ready" /\ nsteps' = nsteps + 1 /\ FetchInRam /\ C7_Unrecognized(Fetched))
         => /\ status' = "ready"
            /\ res' = [kind |-> "Err", opcode |-> Fetched]
            /\ gp_reg' = gp_reg /\ i_reg' = i_reg /\ pc_reg' = pc_reg
            /\ stack' = stack /\ sp_reg' = sp_reg
            /\ ram' = ram /\ display' = display]_vars

\* C7: the program 60FF 8018 has run into its 8018, with V0 = 0xFF.
C7_Witness ==
    /\ res = [kind |-> "Err", opcode |-> 32792]
    /\ ret.opcode = 32792
    /\ At(gp_reg, 0) = 255
    /\ pc_reg = 514

\* C8 (as claimed): the value step returns carries, with the opcode and the
\* frame, the result of ex_opcode.
C8_Claim ==
    (nsteps > 0 /\ status = "ready") => ("result" \in DOMAIN ret /\ ret.result = res.kind)

\* C9 (as claimed): the program counter is even in every reachable state.
C9_Claim == pc_reg % 2 = 0

\* C10 (as claimed): after init the program counter is 0x200, and the first
\* step after load_rom fetches the opcode of the first two bytes of the rom.
C10_Claim ==
    /\ (~pc_set /\ nsteps = 0) => pc_reg = RomStart
    /\ (~pc_set /\ nsteps = 1 /\ status = "ready") => ret.opcode = get_opcode(ram, RomStart)

\* A timer after one decrement that stops at zero.
C11_Down(t) == IF t > 0 THEN t - 1 ELSE 0

\* C11: every call of step that returns, with Ok or with a decode error,
\* leaves each timer one below the value the opcode left it, and leaves a
\* timer that is 0 at 0.
C11_TimersOnce ==
    [][(Stepped /\ FetchInRam)
         => /\ \E rnd \in RandomBytes :
                 /\ d_reg' = C11_Down(ex_opcode(Machine, Fetched, rnd).m.d)
                 /\ s_reg' = C11_Down(ex_opcode(Machine, Fetched, rnd).m.s)
            /\ d_reg = 0 /\ OpcodeNew(Fetched).h1 # 15 => d_reg' = 0
            /\ s_reg = 0 /\ OpcodeNew(Fetched).h1 # 15 => s_reg' = 0]_vars

\* C11: F515 F318 8018 has run into its 8018: the decode error has taken the
\* delay timer from 3 to 2 and the sound timer from 2 to 1.
C11_Witness == res.kind = "Err" /\ ret.opcode = 32792 /\ d_reg = 2 /\ s_reg = 1

\* C12 (as claimed): a step that executes a draw (Dxyn) or a clear (00E0)
\* returns a snapshot of the display, and leaves the modified flag cleared.
C12_Claim ==
    [][(Stepped /\ FetchInRam /\ (Fetched = 224 \/ OpcodeNew(Fetched).h1 = 13))
         => (ret'.frame.some /\ ret'.frame.cells = display' /\ ~modified')]_vars

\* The number of bits set in a byte.
RECURSIVE C14_Bits(_)
C14_Bits(byte) == IF byte = 0 THEN 0 ELSE (byte % 2) + C14_Bits(byte \div 2)

\* The number of bits set in the n bytes of ram from loc on.
RECURSIVE C14_SpriteBits(_, _)
C14_SpriteBits(loc, n) ==
    IF n = 0 THEN 0 ELSE C14_Bits(get_byte(ram, loc)) + C14_SpriteBits(loc + 1, n - 1)

\* C14: a step that executes Dxyn toggles as many cells as the n bytes at
\* I have bits set, all within the n rows and 8 columns from (Vx, Vy), and
\* leaves VF = 1 when a cell that was lit is off afterwards, VF = 0 otherwise.
C14_Collision ==
    [][(Stepped /\ FetchInRam /\ OpcodeNew(Fetched).h1 = 13)
         => LET c == OpcodeNew(Fetched)
                changed == (display \ display') \cup (display' \ display)
            IN  /\ res'.kind = "Ok"
                /\ At(gp_reg', 15) = IF display \ display' # {} THEN 1 ELSE 0
                /\ Cardinality(changed) = C14_SpriteBits(i_reg, c.v3)
                /\ changed \subseteq
                      { Pos(At(gp_reg, c.v1), At(gp_reg, c.v2), r, b) :
                          r \in 0 .. (c.v3 - 1), b \in 0 .. 7 }]_vars

\* C14: A050 D005 D005 has drawn the glyph of 0 over itself: the display is
\* blank again and VF = 1.
C14_Witness ==
    /\ ret.opcode = 53253
    /\ i_reg = FontBase
    /\ display = {}
    /\ At(gp_reg, 15) = 1

\* The cells of the set bits of a sprite drawn at (x, y), with the bit of
\* weight 2^(7-b) of a row in column x + b.
C13_Cells(x, y, sprite) ==
    { Pos(x, y, rb[1], rb[2]) :
        rb \in { q \in (0 .. (Len(sprite) - 1)) \X (0 .. 7) :
                   (sprite[q[1] + 1] \div (2 ^ (7 - q[2]))) % 2 = 1 } }

\* C13 (as claimed): draw_sprite toggles the cells of the set bits of the
\* sprite, the most-significant bit of a row in the leftmost column, and
\* leaves every other cell as it was.
C13_Claim ==
    \A i \in 1 .. Len(log) :
        log[i].op = "draw_sprite"
        => log[i].after = (log[i].before \ C13_Cells(log[i].x, log[i].y, log[i].sprite))
                          \cup (C13_Cells(log[i].x, log[i].y, log[i].sprite) \ log[i].before)

\* The 8 columns and the rows of a sprite drawn at (x, y).
C15_Region(x, y, sprite) ==
    { Pos(x, y, r, b) : r \in 0 .. (Len(sprite) - 1), b \in 0 .. 7 }

\* The number of bits set in a sprite.
C15_SetBits(sprite) ==
    Cardinality({ rb \in (1 .. Len(sprite)) \X (0 .. 7) : (sprite[rb[1]] \div (2 ^ rb[2])) % 2 = 1 })

\* C15: two draws of one sprite at one place, one after the other, leave the
\* display as it was before the first; when the region was blank the first
\* returns false and lights as many cells as the sprite has bits set, all in
\* the region, and the second returns true and leaves the region blank.
C15_DrawTwice ==
    \A i \in 1 .. (Len(log) - 1) :
        (/\ log[i].op = "draw_sprite" /\ log[i + 1].op = "draw_sprite"
         /\ log[i].x = log[i + 1].x /\ log[i].y = log[i + 1].y
         /\ log[i].sprite = log[i + 1].sprite)
        => /\ log[i + 1].before = log[i].after
           /\ log[i + 1].after = log[i].before
           /\ log[i].before \cap C15_Region(log[i].x, log[i].y, log[i].sprite) = {}
              => /\ ~log[i].hit
                 /\ log[i].before \subseteq log[i].after
                 /\ log[i].after \ log[i].before \subseteq
                       C15_Region(log[i].x, log[i].y, log[i].sprite)
                 /\ Cardinality(log[i].after \ log[i].before) = C15_SetBits(log[i].sprite)
                 /\ log[i + 1].hit
                 /\ log[i + 1].after \cap C15_Region(log[i].x, log[i].y, log[i].sprite) = {}

\* C15: the byte 0xF0 has been drawn twice at (60, 31) on a blank display:
\* the first draw lit four cells and returned false, the second returned true
\* and the display is blank again.
C15_Witness ==
    /\ Len(log) = 2
    /\ log[1].op = "draw_sprite" /\ log[2].op = "draw_sprite"
    /\ log[1].sprite = <<240>> /\ log[2].sprite = <<240>>
    /\ log[1].x = 60 /\ log[2].x = 60 /\ log[1].y = 31 /\ log[2].y = 31
    /\ log[1].before = {} /\ Cardinality(log[1].after) = 4 /\ ~log[1].hit
    /\ log[2].hit /\ display = {}

\* The keys the caller holds pressed: those whose last set_key gave true.
C16_Held ==
    { k \in 0 .. 15 :
        \E i \in 1 .. Len(log) :
            /\ log[i].op = "set_key" /\ log[i].index = k /\ log[i].value
            /\ \A j \in (i + 1) .. Len(log) : ~(log[j].op = "set_key" /\ log[j].index = k) }

\* C16 (as claimed): for every non-empty set of keys of 0..15 held pressed,
\* wait_key completes with the lowest of them.
C16_Claim ==
    C16_Held # {}
    => /\ wait_key(Machine).out = "ok"
       /\ \A k \in C16_Held : wait_key(Machine).val <= k
       /\ wait_key(Machine).val \in C16_Held

\* C19 (as claimed): for every index k of 0..15 set_key(k, v) succeeds and
\* leaves key k at v, and a get_key(k) that follows returns v.
C19_Claim ==
    /\ \A i \in 1 .. Len(log) : log[i].op = "set_key" => log[i].done
    /\ \A i \in 1 .. (Len(log) - 1) :
          (log[i].op = "set_key" /\ log[i + 1].op = "get_key" /\ log[i].index = log[i + 1].index)
          => (log[i + 1].done /\ log[i + 1].value = log[i].value)

\* C17: a step that fetches Fx0A while no key is pressed stays in wait_key:
\* it leaves PC, V0..VF and the timers as they were and returns nothing, and
\* while it waits no other call of step is made and nothing changes.
C17_NoProgress ==
    [][/\ (/\ status = "ready" /\ nsteps' = nsteps + 1 /\ FetchInRam
            /\ OpcodeNew(Fetched).h1 = 15 /\ Fetched % 256 = 10
            /\ \A k \in 1 .. Len(keys) : ~keys[k])
           => (/\ status' = "waiting"
               /\ pc_reg' = pc_reg /\ gp_reg' = gp_reg
               /\ d_reg' = d_reg /\ s_reg' = s_reg
               /\ ret' = ret /\ res' = res)
       /\ (status = "waiting" /\ \A k \in 1 .. Len(keys') : ~keys'[k])
           => (status' = "waiting" /\ nsteps' = nsteps /\ regs' = regs /\ ret' = ret)]_vars

\* C17: F515 F00A waits in its F00A with no key pressed: the delay timer has
\* stopped at 4 and the PC at 0x202.
C17_Witness ==
    /\ status = "waiting"
    /\ get_opcode(ram, pc_reg) = 61450
    /\ pc_reg = 514
    /\ d_reg = 4
    /\ ret.opcode = 62741

\* C18 (as claimed): a wait that started with no key pressed eventually sees
\* a key pressed, and the step completes.
C18_Claim == (status = "waiting") ~> (status = "ready" /\ \E k \in 1 .. Len(keys) : keys[k])

\* C20 (as claimed): 8xy4 leaves VF = 1 when Vx + Vy > 255 and VF = 0 when
\* not, also for x = F, and for x other than F leaves Vx = (Vx + Vy) mod 256.
C20_Claim ==
    [][(Stepped /\ FetchInRam /\ OpcodeNew(Fetched).h1 = 8 /\ OpcodeNew(Fetched).v3 = 4)
         => LET c == OpcodeNew(Fetched)
                sum == At(gp_reg, c.v1) + At(gp_reg, c.v2)
            IN  /\ At(gp_reg', 15) = IF sum > 255 THEN 1 ELSE 0
                /\ c.v1 # 15 => At(gp_reg', c.v1) = sum % 256]_vars

\* C21 (as claimed): 8xy5 and 8xy7 complete, with VF = 0 on a borrow and 1
\* without, and with Vx the difference modulo 256.
C21_Claim ==
    [][(/\ status = "ready" /\ nsteps' = nsteps + 1 /\ FetchInRam
        /\ OpcodeNew(Fetched).h1 = 8 /\ OpcodeNew(Fetched).v3 \in {5, 7})
         => LET c == OpcodeNew(Fetched)
                a == IF c.v3 = 5 THEN At(gp_reg, c.v1) ELSE At(gp_reg, c.v2)
                b == IF c.v3 = 5 THEN At(gp_reg, c.v2) ELSE At(gp_reg, c.v1)
            IN  /\ status' = "ready"
                /\ At(gp_reg', 15) = IF a < b THEN 0 ELSE 1
                /\ c.v1 # 15 => At(gp_reg', c.v1) = (a - b + 256) % 256]_vars

\* C22 (as claimed): 8xyE leaves VF = bit 7 of Vx, as 0 or 1, and
\* Vx = (Vx * 2) mod 256.
C22_Claim ==
    [][(Stepped /\ FetchInRam /\ OpcodeNew(Fetched).h1 = 8 /\ OpcodeNew(Fetched).v3 = 14)
         => LET c == OpcodeNew(Fetched)
            IN  /\ At(gp_reg', 15) = At(gp_reg, c.v1) \div 128
                /\ c.v1 # 15 => At(gp_reg', c.v1) = (At(gp_reg, c.v1) * 2) % 256]_vars

\* C23 (as claimed): 7xkk completes with Vx = (Vx + kk) mod 256 and with
\* every other register as it was.
C23_Claim ==
    [][(/\ status = "ready" /\ nsteps' = nsteps + 1 /\ FetchInRam
        /\ OpcodeNew(Fetched).h1 = 7)
         => /\ status' = "ready"
            /\ gp_reg' = [gp_reg EXCEPT ![OpcodeNew(Fetched).v1 + 1] =
                              (@ + (Fetched % 256)) % 256]
            /\ i_reg' = i_reg /\ sp_reg' = sp_reg /\ stack' = stack]_vars

\* C24: a step that executes Fx33 with I, I + 1 and I + 2 in the ram leaves
\* the hundreds, tens and ones digits of Vx there, each in 0..9 and together
\* worth Vx, and leaves every other byte, every register and I as they were.
C24_Digits ==
    [][(/\ status = "ready" /\ nsteps' = nsteps + 1 /\ FetchInRam
        /\ OpcodeNew(Fetched).h1 = 15 /\ Fetched % 256 = 51
        /\ InRam(i_reg + 2))
         => LET vx == At(gp_reg, OpcodeNew(Fetched).v1)
            IN  /\ status' = "ready" /\ res'.kind = "Ok"
                /\ get_byte(ram', i_reg) = vx \div 100
                /\ get_byte(ram', i_reg + 1) = (vx \div 10) % 10
                /\ get_byte(ram', i_reg + 2) = vx % 10
                /\ \A k \in 0 .. 2 : get_byte(ram', i_reg + k) \in 0 .. 9
                /\ 100 * get_byte(ram', i_reg) + 10 * get_byte(ram', i_reg + 1)
                      + get_byte(ram', i_reg + 2) = vx
                /\ \A loc \in 0 .. (RamSize - 1) :
                      loc \notin i_reg .. (i_reg + 2) => get_byte(ram', loc) = get_byte(ram, loc)
                /\ gp_reg' = gp_reg /\ i_reg' = i_reg
                /\ sp_reg' = sp_reg /\ stack' = stack]_vars

\* C24: 60EA A300 F033 has stored 2, 3, 4, the digits of 234, at 0x300.
C24_Witness ==
    /\ ret.opcode = 61491
    /\ At(gp_reg, 0) = 234
    /\ i_reg = 768
    /\ get_byte(ram, 768) = 2 /\ get_byte(ram, 769) = 3 /\ get_byte(ram, 770) = 4

\* C25 (as claimed): Fx55 with I..I + x in the ram stores V0..Vx at I..I + x,
\* changes no other byte and no general register, and leaves I = I + x + 1.
C25_Claim ==
    [][(/\ Stepped /\ FetchInRam
        /\ OpcodeNew(Fetched).h1 = 15 /\ Fetched % 256 = 85
        /\ InRam(i_reg + OpcodeNew(Fetched).v1))
         => LET x == OpcodeNew(Fetched).v1
            IN  /\ \A k \in 0 .. x : get_byte(ram', i_reg + k) = At(gp_reg, k)
                /\ \A loc \in 0 .. (RamSize - 1) :
                      loc \notin i_reg .. (i_reg + x) => get_byte(ram', loc) = get_byte(ram, loc)
                /\ gp_reg' = gp_reg
                /\ i_reg' = i_reg + x + 1]_vars

\* C26 (as claimed): Fx65 with I..I + x in the ram fills V0..Vx from
\* I..I + x, leaves the registers above Vx and the ram as they were, and
\* leaves I = I + x + 1.
C26_Claim ==
    [][(/\ Stepped /\ FetchInRam
        /\ OpcodeNew(Fetched).h1 = 15 /\ Fetched % 256 = 101
        /\ InRam(i_reg + OpcodeNew(Fetched).v1))
         => LET x == OpcodeNew(Fetched).v1
            IN  /\ \A k \in 0 .. x : At(gp_reg', k) = get_byte(ram, i_reg + k)
                /\ \A k \in (x + 1) .. 15 : At(gp_reg', k) = At(gp_reg, k)
                /\ ram' = ram
                /\ i_reg' = i_reg + x + 1]_vars

\* C27 (as claimed): Fx29 with a digit d in 0..15 in Vx leaves I = 0x050 + 5 * d,
\* the start of the glyph of d.
C27_Claim ==
    [][(/\ Stepped /\ FetchInRam
        /\ OpcodeNew(Fetched).h1 = 15 /\ Fetched % 256 = 41
        /\ At(gp_reg, OpcodeNew(Fetched).v1) \in 0 .. 15)
         => i_reg' = FontBase + 5 * At(gp_reg, OpcodeNew(Fetched).v1)]_vars

\* C28 (as claimed): in every reachable state the 80 bytes at 0x050..0x09F
\* equal the font table written at initialization.
C28_Claim ==
    \A loc \in FontBase .. (FontBase + 79) : get_byte(ram, loc) = get_byte(InitRam, loc)

\* C29 (as claimed): with the value of Vx the number of a key of the keypad,
\* Ex9E advances PC by 4 exactly when that key is pressed and by 2 otherwise,
\* ExA1 by 4 exactly when it is not pressed, and no other register changes.
C29_Claim ==
    [][(/\ Stepped /\ FetchInRam
        /\ OpcodeNew(Fetched).h1 = 14 /\ Fetched % 256 \in {158, 161}
        /\ At(gp_reg, OpcodeNew(Fetched).v1) < NumKeys)
         => LET pressed == At(keys, At(gp_reg, OpcodeNew(Fetched).v1))
                skip == IF Fetched % 256 = 158 THEN pressed ELSE ~pressed
            IN  /\ pc_reg' = next_index(pc_reg) + (IF skip THEN 4 ELSE 2)
                /\ gp_reg' = gp_reg /\ i_reg' = i_reg
                /\ sp_reg' = sp_reg /\ stack' = stack]_vars

\* C30 (as claimed): a step that executes Fx15 leaves the delay timer at the
\* value of Vx less the decrement of the step, one that executes Fx18 leaves
\* the sound timer so, and one that executes Fx07 leaves Vx = the delay timer
\* before the step.
C30_Claim ==
    [][(Stepped /\ FetchInRam /\ OpcodeNew(Fetched).h1 = 15
        /\ Fetched % 256 \in {7, 21, 24})
         => LET x == OpcodeNew(Fetched).v1
            IN  /\ Fetched % 256 = 21 => d_reg' = C11_Down(At(gp_reg, x))
                /\ Fetched % 256 = 24 => s_reg' = C11_Down(At(gp_reg, x))
                /\ Fetched % 256 = 7 => At(gp_reg', x) = d_reg]_vars

\* The condition of the skip opcode op, on the registers as they are.
C31_Cond(op) ==
    LET c == OpcodeNew(op)
        x == At(gp_reg, c.v1)
        y == At(gp_reg, c.v2)
    IN  CASE c.h1 = 3 -> x = op % 256
          [] c.h1 = 4 -> x # op % 256
          [] c.h1 = 5 -> x = y
          [] c.h1 = 9 -> x # y

\* C31: a step that executes 3xkk, 4xkk, 5xy0 or 9xy0 completes with PC four
\* further when the condition of the opcode holds and two further when it
\* does not, and with the general registers, I, the stack, the ram and the
\* display as they were.
C31_Skips ==
    [][(/\ status = "ready" /\ nsteps' = nsteps + 1 /\ FetchInRam
        /\ \/ OpcodeNew(Fetched).h1 \in {3, 4}
           \/ OpcodeNew(Fetched).h1 \in {5, 9} /\ OpcodeNew(Fetched).v3 = 0)
         => /\ status' = "ready" /\ res'.kind = "Ok"
            /\ pc_reg' = pc_reg + (IF C31_Cond(Fetched) THEN 4 ELSE 2)
            /\ gp_reg' = gp_reg /\ i_reg' = i_reg
            /\ stack' = stack /\ sp_reg' = sp_reg
            /\ ram' = ram /\ display' = display]_vars

\* C31: the program of the eight skips has run through its last, 9010 at
\* 0x216, taken: PC = 0x21A after nine steps, and no LD VF, 0xFF was executed.
C31_Witness ==
    /\ ret.opcode = 36880
    /\ nsteps = 9
    /\ pc_reg = 538
    /\ At(gp_reg, 0) = 5 /\ At(gp_reg, 15) = 0

\* C32 (as claimed): a step that executes an opcode 0x0nnn other than 00E0
\* and 00EE completes with PC two further and with the display, the stack,
\* the registers and the ram as they were.
C32_Claim ==
    [][(/\ status = "ready" /\ nsteps' = nsteps + 1 /\ FetchInRam
        /\ OpcodeNew(Fetched).h1 = 0 /\ Fetched \notin {224, 238})
         => /\ status' = "ready"
            /\ pc_reg' = pc_reg + 2
            /\ display' = display
            /\ stack' = stack /\ sp_reg' = sp_reg
            /\ gp_reg' = gp_reg /\ i_reg' = i_reg
            /\ ram' = ram]_vars

\* C33 (as claimed): a pass of run's loop leaves the PC, the registers, the
\* stack, the timers, the ram and the display that a call of step leaves
\* from the same state.
C33_Claim ==
    [][(status = "running" /\ nsteps' = nsteps + 1 /\ FetchInRam)
         => \E rnd \in RandomBytes : \E r \in {step_body(Machine, rnd)} :
              /\ pc_reg' = r.m.pc
              /\ gp_reg' = r.m.gp /\ i_reg' = r.m.i
              /\ stack' = r.m.stack /\ sp_reg' = r.m.sp
              /\ d_reg' = r.m.d /\ s_reg' = r.m.s
              /\ ram' = r.m.ram /\ display' = r.m.disp]_vars

\* C34 (as claimed): has_loaded is true exactly when a program has been
\* loaded into the ram, by load_rom or by load_rom_file; the ram differs from
\* the one init left exactly then.
C34_Claim == loaded <=> ram # InitRam


============================================================================
